---------------------------- MODULE Spec2Model ----------------------------
(***************************************************************************)
(* Model of bot.py: the /forecast command handler of the Telegram weather  *)
(* bot, with the Open-Meteo fetch (fetch_model), the per-model filter and  *)
(* outer join (build_forecast), the text / CSV / chart replies (forecast,  *)
(* plot_forecast), the chat transport's awaits and the Application's       *)
(* one-update-at-a-time dispatch (main).                                   *)
(*                                                                         *)
(* Source text.  In bot.py the string literals at lines 65, 89-91 and      *)
(* 93-95 are broken across physical lines, so the file as it stands stops  *)
(* with a SyntaxError when it is loaded: no Application is built and no    *)
(* handler ever runs (proc = "SyntaxError", a state without a successor).  *)
(* Every other state is a state of the program those lines spell out,      *)
(* each broken literal read as the one string with a newline at the break  *)
(* (proc = "polling"); nothing else is assumed about the text.             *)
(*                                                                         *)
(* Representation.  A token of context.args is the sequence of its         *)
(* characters, so that int(), float(), split(","), strip() and the         *)
(* comparison with strftime's output are computed, not assumed.  An ASCII  *)
(* character is the one-character string, any other character the string   *)
(* "U+" followed by its code point in hexadecimal ("U+0967").  " " stands  *)
(* for one whitespace character other than the four separators U+001C to   *)
(* U+001F, which are written "U+001C" to "U+001F": str.strip() removes     *)
(* them, int() and float() do not.  A timestamp is                         *)
(* [date |-> <<y, m, d>>, hour |-> h]; a cell value is <<v>> and a null    *)
(* cell is << >>.                                                          *)
(***************************************************************************)
EXTENDS Integers, Sequences, FiniteSets, TLC

VARIABLES chat, fs, running, provider, proc

vars == <<chat, fs, running, provider, proc>>

Chats == {1, 2}

(* Number of distinct hourly series with data the provider may answer with. *)
NumSeries == 2

(***************************************************************************)
(* Model registry (bot.py 12-21).                                          *)
(***************************************************************************)
AVAILABLE_MODELS ==
    ("GFS" :> "gfs_seamless") @@ ("ICON" :> "icon_seamless") @@
    ("ECMWF" :> "ecmwf_ifs025") @@ ("JMA" :> "jma_seamless") @@
    ("GEM" :> "gem_seamless") @@ ("UKMO" :> "ukmo_seamless") @@
    ("MeteoFrance" :> "meteofrance_seamless") @@
    ("ACCESS-G" :> "bom_access_global")

(***************************************************************************)
(* Generic helpers.                                                        *)
(***************************************************************************)
Range(s) == {s[k] : k \in DOMAIN s}

Min2(a, b) == IF a <= b THEN a ELSE b

RECURSIVE SumSeq(_)
SumSeq(s) == IF s = << >> THEN 0 ELSE Head(s) + SumSeq(Tail(s))

RECURSIVE Flatten(_)
Flatten(ss) == IF ss = << >> THEN << >> ELSE Head(ss) \o Flatten(Tail(ss))

NaN == << >>

(* The string spelled by a sequence of characters. *)
RECURSIVE Str(_)
Str(cs) == IF cs = << >> THEN "" ELSE Head(cs) \o Str(Tail(cs))

(* File, group, record and unit separator: str.isspace() is true of them. *)
Separators == {"U+001C", "U+001D", "U+001E", "U+001F"}

(* Leading and trailing characters of S removed. *)
RECURSIVE StripChars(_, _)
StripChars(t, S) ==
    IF t = << >> THEN t
    ELSE IF Head(t) \in S THEN StripChars(Tail(t), S)
    ELSE IF t[Len(t)] \in S THEN StripChars(SubSeq(t, 1, Len(t) - 1), S)
    ELSE t

(* str.strip(): every character str.isspace() is true of. *)
Strip(t) == StripChars(t, {" "} \cup Separators)

(* What int() and float() skip around the number: whitespace, the four *)
(* separators excepted.                                                *)
StripNumeric(t) == StripChars(t, {" "})

(***************************************************************************)
(* Python conversions used by the handler (bot.py 77-79).                  *)
(* int(tok): whitespace stripped, an optional sign, then decimal digits of *)
(* any script in which single underscores may separate digits, at most     *)
(* 4300 digits; leading zeros are allowed; anything else raises            *)
(* ValueError.                                                             *)
(* float(tok): whitespace stripped, an optional sign, then inf, infinity   *)
(* or nan in any letter case, or digits with an optional fraction point    *)
(* (digits on at least one side) and an optional exponent.  Only whether   *)
(* float() succeeds matters to the handler: the value goes to the provider.*)
(***************************************************************************)
(* The decimal digits (Unicode category Nd, version 14.0): the k-th set    *)
(* holds the characters of value k - 1.                                    *)
DecimalDigits ==
  <<
     {"0", "U+0660", "U+06F0", "U+07C0", "U+0966", "U+09E6", "U+0A66",
      "U+0AE6", "U+0B66", "U+0BE6", "U+0C66", "U+0CE6", "U+0D66",
      "U+0DE6", "U+0E50", "U+0ED0", "U+0F20", "U+1040", "U+1090",
      "U+17E0", "U+1810", "U+1946", "U+19D0", "U+1A80", "U+1A90",
      "U+1B50", "U+1BB0", "U+1C40", "U+1C50", "U+A620", "U+A8D0",
      "U+A900", "U+A9D0", "U+A9F0", "U+AA50", "U+ABF0", "U+FF10",
      "U+104A0", "U+10D30", "U+11066", "U+110F0", "U+11136", "U+111D0",
      "U+112F0", "U+11450", "U+114D0", "U+11650", "U+116C0", "U+11730",
      "U+118E0", "U+11950", "U+11C50", "U+11D50", "U+11DA0", "U+16A60",
      "U+16AC0", "U+16B50", "U+1D7CE", "U+1D7D8", "U+1D7E2", "U+1D7EC",
      "U+1D7F6", "U+1E140", "U+1E2F0", "U+1E950", "U+1FBF0"},
     {"1", "U+0661", "U+06F1", "U+07C1", "U+0967", "U+09E7", "U+0A67",
      "U+0AE7", "U+0B67", "U+0BE7", "U+0C67", "U+0CE7", "U+0D67",
      "U+0DE7", "U+0E51", "U+0ED1", "U+0F21", "U+1041", "U+1091",
      "U+17E1", "U+1811", "U+1947", "U+19D1", "U+1A81", "U+1A91",
      "U+1B51", "U+1BB1", "U+1C41", "U+1C51", "U+A621", "U+A8D1",
      "U+A901", "U+A9D1", "U+A9F1", "U+AA51", "U+ABF1", "U+FF11",
      "U+104A1", "U+10D31", "U+11067", "U+110F1", "U+11137", "U+111D1",
      "U+112F1", "U+11451", "U+114D1", "U+11651", "U+116C1", "U+11731",
      "U+118E1", "U+11951", "U+11C51", "U+11D51", "U+11DA1", "U+16A61",
      "U+16AC1", "U+16B51", "U+1D7CF", "U+1D7D9", "U+1D7E3", "U+1D7ED",
      "U+1D7F7", "U+1E141", "U+1E2F1", "U+1E951", "U+1FBF1"},
     {"2", "U+0662", "U+06F2", "U+07C2", "U+0968", "U+09E8", "U+0A68",
      "U+0AE8", "U+0B68", "U+0BE8", "U+0C68", "U+0CE8", "U+0D68",
      "U+0DE8", "U+0E52", "U+0ED2", "U+0F22", "U+1042", "U+1092",
      "U+17E2", "U+1812", "U+1948", "U+19D2", "U+1A82", "U+1A92",
      "U+1B52", "U+1BB2", "U+1C42", "U+1C52", "U+A622", "U+A8D2",
      "U+A902", "U+A9D2", "U+A9F2", "U+AA52", "U+ABF2", "U+FF12",
      "U+104A2", "U+10D32", "U+11068", "U+110F2", "U+11138", "U+111D2",
      "U+112F2", "U+11452", "U+114D2", "U+11652", "U+116C2", "U+11732",
      "U+118E2", "U+11952", "U+11C52", "U+11D52", "U+11DA2", "U+16A62",
      "U+16AC2", "U+16B52", "U+1D7D0", "U+1D7DA", "U+1D7E4", "U+1D7EE",
      "U+1D7F8", "U+1E142", "U+1E2F2", "U+1E952", "U+1FBF2"},
     {"3", "U+0663", "U+06F3", "U+07C3", "U+0969", "U+09E9", "U+0A69",
      "U+0AE9", "U+0B69", "U+0BE9", "U+0C69", "U+0CE9", "U+0D69",
      "U+0DE9", "U+0E53", "U+0ED3", "U+0F23", "U+1043", "U+1093",
      "U+17E3", "U+1813", "U+1949", "U+19D3", "U+1A83", "U+1A93",
      "U+1B53", "U+1BB3", "U+1C43", "U+1C53", "U+A623", "U+A8D3",
      "U+A903", "U+A9D3", "U+A9F3", "U+AA53", "U+ABF3", "U+FF13",
      "U+104A3", "U+10D33", "U+11069", "U+110F3", "U+11139", "U+111D3",
      "U+112F3", "U+11453", "U+114D3", "U+11653", "U+116C3", "U+11733",
      "U+118E3", "U+11953", "U+11C53", "U+11D53", "U+11DA3", "U+16A63",
      "U+16AC3", "U+16B53", "U+1D7D1", "U+1D7DB", "U+1D7E5", "U+1D7EF",
      "U+1D7F9", "U+1E143", "U+1E2F3", "U+1E953", "U+1FBF3"},
     {"4", "U+0664", "U+06F4", "U+07C4", "U+096A", "U+09EA", "U+0A6A",
      "U+0AEA", "U+0B6A", "U+0BEA", "U+0C6A", "U+0CEA", "U+0D6A",
      "U+0DEA", "U+0E54", "U+0ED4", "U+0F24", "U+1044", "U+1094",
      "U+17E4", "U+1814", "U+194A", "U+19D4", "U+1A84", "U+1A94",
      "U+1B54", "U+1BB4", "U+1C44", "U+1C54", "U+A624", "U+A8D4",
      "U+A904", "U+A9D4", "U+A9F4", "U+AA54", "U+ABF4", "U+FF14",
      "U+104A4", "U+10D34", "U+1106A", "U+110F4", "U+1113A", "U+111D4",
      "U+112F4", "U+11454", "U+114D4", "U+11654", "U+116C4", "U+11734",
      "U+118E4", "U+11954", "U+11C54", "U+11D54", "U+11DA4", "U+16A64",
      "U+16AC4", "U+16B54", "U+1D7D2", "U+1D7DC", "U+1D7E6", "U+1D7F0",
      "U+1D7FA", "U+1E144", "U+1E2F4", "U+1E954", "U+1FBF4"},
     {"5", "U+0665", "U+06F5", "U+07C5", "U+096B", "U+09EB", "U+0A6B",
      "U+0AEB", "U+0B6B", "U+0BEB", "U+0C6B", "U+0CEB", "U+0D6B",
      "U+0DEB", "U+0E55", "U+0ED5", "U+0F25", "U+1045", "U+1095",
      "U+17E5", "U+1815", "U+194B", "U+19D5", "U+1A85", "U+1A95",
      "U+1B55", "U+1BB5", "U+1C45", "U+1C55", "U+A625", "U+A8D5",
      "U+A905", "U+A9D5", "U+A9F5", "U+AA55", "U+ABF5", "U+FF15",
      "U+104A5", "U+10D35", "U+1106B", "U+110F5", "U+1113B", "U+111D5",
      "U+112F5", "U+11455", "U+114D5", "U+11655", "U+116C5", "U+11735",
      "U+118E5", "U+11955", "U+11C55", "U+11D55", "U+11DA5", "U+16A65",
      "U+16AC5", "U+16B55", "U+1D7D3", "U+1D7DD", "U+1D7E7", "U+1D7F1",
      "U+1D7FB", "U+1E145", "U+1E2F5", "U+1E955", "U+1FBF5"},
     {"6", "U+0666", "U+06F6", "U+07C6", "U+096C", "U+09EC", "U+0A6C",
      "U+0AEC", "U+0B6C", "U+0BEC", "U+0C6C", "U+0CEC", "U+0D6C",
      "U+0DEC", "U+0E56", "U+0ED6", "U+0F26", "U+1046", "U+1096",
      "U+17E6", "U+1816", "U+194C", "U+19D6", "U+1A86", "U+1A96",
      "U+1B56", "U+1BB6", "U+1C46", "U+1C56", "U+A626", "U+A8D6",
      "U+A906", "U+A9D6", "U+A9F6", "U+AA56", "U+ABF6", "U+FF16",
      "U+104A6", "U+10D36", "U+1106C", "U+110F6", "U+1113C", "U+111D6",
      "U+112F6", "U+11456", "U+114D6", "U+11656", "U+116C6", "U+11736",
      "U+118E6", "U+11956", "U+11C56", "U+11D56", "U+11DA6", "U+16A66",
      "U+16AC6", "U+16B56", "U+1D7D4", "U+1D7DE", "U+1D7E8", "U+1D7F2",
      "U+1D7FC", "U+1E146", "U+1E2F6", "U+1E956", "U+1FBF6"},
     {"7", "U+0667", "U+06F7", "U+07C7", "U+096D", "U+09ED", "U+0A6D",
      "U+0AED", "U+0B6D", "U+0BED", "U+0C6D", "U+0CED", "U+0D6D",
      "U+0DED", "U+0E57", "U+0ED7", "U+0F27", "U+1047", "U+1097",
      "U+17E7", "U+1817", "U+194D", "U+19D7", "U+1A87", "U+1A97",
      "U+1B57", "U+1BB7", "U+1C47", "U+1C57", "U+A627", "U+A8D7",
      "U+A907", "U+A9D7", "U+A9F7", "U+AA57", "U+ABF7", "U+FF17",
      "U+104A7", "U+10D37", "U+1106D", "U+110F7", "U+1113D", "U+111D7",
      "U+112F7", "U+11457", "U+114D7", "U+11657", "U+116C7", "U+11737",
      "U+118E7", "U+11957", "U+11C57", "U+11D57", "U+11DA7", "U+16A67",
      "U+16AC7", "U+16B57", "U+1D7D5", "U+1D7DF", "U+1D7E9", "U+1D7F3",
      "U+1D7FD", "U+1E147", "U+1E2F7", "U+1E957", "U+1FBF7"},
     {"8", "U+0668", "U+06F8", "U+07C8", "U+096E", "U+09EE", "U+0A6E",
      "U+0AEE", "U+0B6E", "U+0BEE", "U+0C6E", "U+0CEE", "U+0D6E",
      "U+0DEE", "U+0E58", "U+0ED8", "U+0F28", "U+1048", "U+1098",
      "U+17E8", "U+1818", "U+194E", "U+19D8", "U+1A88", "U+1A98",
      "U+1B58", "U+1BB8", "U+1C48", "U+1C58", "U+A628", "U+A8D8",
      "U+A908", "U+A9D8", "U+A9F8", "U+AA58", "U+ABF8", "U+FF18",
      "U+104A8", "U+10D38", "U+1106E", "U+110F8", "U+1113E", "U+111D8",
      "U+112F8", "U+11458", "U+114D8", "U+11658", "U+116C8", "U+11738",
      "U+118E8", "U+11958", "U+11C58", "U+11D58", "U+11DA8", "U+16A68",
      "U+16AC8", "U+16B58", "U+1D7D6", "U+1D7E0", "U+1D7EA", "U+1D7F4",
      "U+1D7FE", "U+1E148", "U+1E2F8", "U+1E958", "U+1FBF8"},
     {"9", "U+0669", "U+06F9", "U+07C9", "U+096F", "U+09EF", "U+0A6F",
      "U+0AEF", "U+0B6F", "U+0BEF", "U+0C6F", "U+0CEF", "U+0D6F",
      "U+0DEF", "U+0E59", "U+0ED9", "U+0F29", "U+1049", "U+1099",
      "U+17E9", "U+1819", "U+194F", "U+19D9", "U+1A89", "U+1A99",
      "U+1B59", "U+1BB9", "U+1C49", "U+1C59", "U+A629", "U+A8D9",
      "U+A909", "U+A9D9", "U+A9F9", "U+AA59", "U+ABF9", "U+FF19",
      "U+104A9", "U+10D39", "U+1106F", "U+110F9", "U+1113F", "U+111D9",
      "U+112F9", "U+11459", "U+114D9", "U+11659", "U+116C9", "U+11739",
      "U+118E9", "U+11959", "U+11C59", "U+11D59", "U+11DA9", "U+16A69",
      "U+16AC9", "U+16B59", "U+1D7D7", "U+1D7E1", "U+1D7EB", "U+1D7F5",
      "U+1D7FF", "U+1E149", "U+1E2F9", "U+1E959", "U+1FBF9"}
  >>

IsDigit(ch) == \E v \in DOMAIN DecimalDigits : ch \in DecimalDigits[v]

DigitVal(ch) == (CHOOSE v \in DOMAIN DecimalDigits : ch \in DecimalDigits[v]) - 1

(* digit (["_"] digit)* *)
IsDigitPart(s) ==
    /\ s # << >>
    /\ IsDigit(s[1]) /\ IsDigit(s[Len(s)])
    /\ \A k \in DOMAIN s : IsDigit(s[k]) \/ s[k] = "_"
    /\ \A k \in 1 .. Len(s) - 1 : ~(s[k] = "_" /\ s[k + 1] = "_")

Unsigned(s) == IF s # << >> /\ s[1] \in {"+", "-"} THEN Tail(s) ELSE s

(* int() refuses a literal of more digits than this (ValueError); signs, *)
(* underscores and surrounding whitespace do not count.                 *)
MaxStrDigits == 4300

DigitCount(s) == Cardinality({k \in DOMAIN s : IsDigit(s[k])})

IsInt(tok) ==
    LET s == Unsigned(StripNumeric(tok))
    IN  IsDigitPart(s) /\ DigitCount(s) <= MaxStrDigits

RECURSIVE DigitsValue(_, _)
DigitsValue(acc, s) ==
    IF s = << >> THEN acc
    ELSE IF Head(s) = "_" THEN DigitsValue(acc, Tail(s))
    ELSE DigitsValue(10 * acc + DigitVal(Head(s)), Tail(s))

ParseInt(tok) ==
    LET s == StripNumeric(tok)
        v == DigitsValue(0, Unsigned(s))
    IN  IF s[1] = "-" THEN 0 - v ELSE v

Lower(ch) ==
    CASE ch = "A" -> "a" [] ch = "E" -> "e" [] ch = "F" -> "f"
      [] ch = "I" -> "i" [] ch = "N" -> "n" [] ch = "T" -> "t"
      [] ch = "Y" -> "y" [] OTHER -> ch

(* Position of the first character of s that is in S (0: there is none). *)
FirstOf(s, S) ==
    IF \E k \in DOMAIN s : s[k] \in S
    THEN CHOOSE k \in DOMAIN s : s[k] \in S /\ \A q \in 1 .. k - 1 : s[q] \notin S
    ELSE 0

IsMantissa(s) ==
    LET p == FirstOf(s, {"."})
        ip == SubSeq(s, 1, p - 1)
        fp == SubSeq(s, p + 1, Len(s))
    IN  IF p = 0 THEN IsDigitPart(s)
        ELSE /\ ip # << >> \/ fp # << >>
             /\ ip = << >> \/ IsDigitPart(ip)
             /\ fp = << >> \/ IsDigitPart(fp)

IsFloat(tok) ==
    LET s == Unsigned(StripNumeric(tok))
        low == [k \in DOMAIN s |-> Lower(s[k])]
        e == FirstOf(low, {"e"})
    IN  \/ low \in {<<"i", "n", "f">>, <<"n", "a", "n">>,
                    <<"i", "n", "f", "i", "n", "i", "t", "y">>}
        \/ IF e = 0 THEN IsMantissa(s)
           ELSE /\ IsMantissa(SubSeq(s, 1, e - 1))
                /\ IsDigitPart(Unsigned(SubSeq(s, e + 1, Len(s))))

(***************************************************************************)
(* str.split(",") and the registry test on the model-list token            *)
(* (bot.py 80).                                                            *)
(***************************************************************************)
RECURSIVE SplitComma(_)
SplitComma(s) ==
    IF \A k \in DOMAIN s : s[k] # ","
    THEN <<s>>
    ELSE LET k == CHOOSE j \in DOMAIN s :
                     s[j] = "," /\ \A q \in 1 .. j - 1 : s[q] # ","
         IN  <<SubSeq(s, 1, k - 1)>> \o SplitComma(SubSeq(s, k + 1, Len(s)))

(* m.strip() in AVAILABLE_MODELS *)
IsRegistered(t) == Str(Strip(t)) \in DOMAIN AVAILABLE_MODELS

KeepAllTokens(arg) == [k \in DOMAIN SplitComma(arg) |-> Str(Strip(SplitComma(arg)[k]))]

(* [m.strip() for m in args[6].split(",") if m.strip() in AVAILABLE_MODELS] *)
ParseModels(arg) ==
    LET kept == SelectSeq(SplitComma(arg), IsRegistered)
    IN  [k \in DOMAIN kept |-> Str(Strip(kept[k]))]

(***************************************************************************)
(* Timestamps.  strftime("%Y-%m-%d") gives four, two and two digits (a     *)
(* pandas timestamp's year has four).                                      *)
(***************************************************************************)
DigitChars == <<"0", "1", "2", "3", "4", "5", "6", "7", "8", "9">>

Pow10(k) == IF k = 0 THEN 1 ELSE IF k = 1 THEN 10 ELSE IF k = 2 THEN 100 ELSE 1000

Padded(n, w) == [k \in 1 .. w |-> DigitChars[((n \div Pow10(w - k)) % 10) + 1]]

Strftime(t) ==
    Padded(t.date[1], 4) \o <<"-">> \o Padded(t.date[2], 2) \o <<"-">> \o
    Padded(t.date[3], 2)

TimeKey(t) ==
    ((t.date[1] * 100 + t.date[2]) * 100 + t.date[3]) * 100 + t.hour

RECURSIVE SortTimes(_)
SortTimes(S) ==
    IF S = {} THEN << >>
    ELSE LET t == CHOOSE u \in S : \A w \in S : TimeKey(u) <= TimeKey(w)
         IN  <<t>> \o SortTimes(S \ {t})

(***************************************************************************)
(* The provider.  Series(k) is the k-th hourly series it may return: the   *)
(* hours of 2025-08-19 that are multiples of k, followed by two hours of   *)
(* the next day; ascending and unique, as the provider returns them.  Some *)
(* precipitation samples are gaps (null).  NoData is the answer for a      *)
(* model without data at the place: the timestamps, every measure null.    *)
(***************************************************************************)
Day1 == <<2025, 8, 19>>
Day2 == <<2025, 8, 20>>

Sample(k, d, h) ==
    [time |-> [date |-> d, hour |-> h],
     temperature_2m |-> <<10 * k + (h % 3)>>,
     precipitation |-> IF h % 7 = 6 THEN NaN ELSE <<k>>,
     wind_speed_10m |-> <<h>>]

Series(k) ==
    LET hs1 == SelectSeq([h \in 1 .. 24 |-> h - 1], LAMBDA h : h % k = 0)
        hs2 == SelectSeq(<<0, 12>>, LAMBDA h : h % k = 0)
    IN  [j \in DOMAIN hs1 |-> Sample(k, Day1, hs1[j])] \o
        [j \in DOMAIN hs2 |-> Sample(k, Day2, hs2[j])]

NoData ==
    [j \in DOMAIN Series(1) |->
        [time |-> Series(1)[j].time, temperature_2m |-> NaN,
         precipitation |-> NaN, wind_speed_10m |-> NaN]]

(* What requests.get / raise_for_status / r.json() can give (bot.py 31-32). *)
Responses ==
    {[kind |-> "ConnectionError"], [kind |-> "Timeout"],
     [kind |-> "HTTPError"], [kind |-> "NoHourly"]} \cup
    {[kind |-> "ok", hourly |-> Series(k)] : k \in 1 .. NumSeries} \cup
    {[kind |-> "ok", hourly |-> NoData]}

(***************************************************************************)
(* fetch_model (bot.py 26-36): one request, no retry; any failure raises.  *)
(* A frame is its column names, its rows and obj, the columns of dtype     *)
(* object: a list with no number in it (all null, or empty) makes an       *)
(* object column, any other list a numeric one, and filtering, renaming    *)
(* and joining keep a column's dtype class.                                *)
(***************************************************************************)
ObjectColumns(cols, rows) ==
    {c \in cols : \A j \in DOMAIN rows : rows[j].cells[c] = NaN}

FetchModel(resp) ==
    IF resp.kind = "ok"
    THEN LET rows == [j \in DOMAIN resp.hourly |->
                      [time |-> resp.hourly[j].time,
                       cells |-> ("temp" :> resp.hourly[j].temperature_2m) @@
                                 ("precip" :> resp.hourly[j].precipitation) @@
                                 ("wind" :> resp.hourly[j].wind_speed_10m)]]
         IN  [ok |-> TRUE,
              df |-> [cols |-> <<"temp", "precip", "wind">>,
                      rows |-> rows,
                      obj |-> ObjectColumns({"temp", "precip", "wind"}, rows)]]
    ELSE [ok |-> FALSE,
          exc |-> IF resp.kind = "NoHourly" THEN "KeyError" ELSE resp.kind]

(***************************************************************************)
(* build_forecast, per model (bot.py 42-44).                               *)
(***************************************************************************)
InWindowOr(t, date_str, start, end) ==
    Strftime(t) = date_str /\ (t.hour >= start \/ t.hour <= end)

InWindow(t, date_str, start, end) ==
    Strftime(t) = date_str /\ t.hour >= start /\ t.hour <= end

FilterFrame(df, date_str, start, end) ==
    [df EXCEPT !.rows =
        SelectSeq(df.rows, LAMBDA r : InWindow(r.time, date_str, start, end))]

RenameFrame(df, m) ==
    [cols |-> [k \in DOMAIN df.cols |-> df.cols[k] \o "_" \o m],
     obj |-> {c \o "_" \o m : c \in df.obj},
     rows |-> [j \in DOMAIN df.rows |->
                 [time |-> df.rows[j].time,
                  cells |-> [c \in {df.cols[k] \o "_" \o m : k \in DOMAIN df.cols} |->
                      LET k == CHOOSE q \in DOMAIN df.cols : df.cols[q] \o "_" \o m = c
                      IN  df.rows[j].cells[df.cols[k]]]]]]

(***************************************************************************)
(* DataFrame.join(how="outer") on the time index (bot.py 46): the sorted   *)
(* union of both indexes; a side with no row at a timestamp contributes    *)
(* nulls; overlapping column names raise ValueError.                       *)
(***************************************************************************)
Times(df) == {df.rows[j].time : j \in DOMAIN df.rows}

RowsAt(df, t) ==
    LET hit == SelectSeq(df.rows, LAMBDA r : r.time = t)
    IN  IF hit = << >>
        THEN <<[time |-> t, cells |-> [c \in Range(df.cols) |-> NaN]]>>
        ELSE hit

JoinOn(l, r, index) ==
    [cols |-> l.cols \o r.cols,
     obj |-> l.obj \cup r.obj,
     rows |-> Flatten([n \in DOMAIN index |->
                 LET lr == RowsAt(l, index[n])
                     rr == RowsAt(r, index[n])
                 IN  Flatten([a \in DOMAIN lr |->
                         [b \in DOMAIN rr |->
                             [time |-> index[n],
                              cells |-> lr[a].cells @@ rr[b].cells]]])])]

InnerJoin(l, r) == JoinOn(l, r, SortTimes(Times(l) \cap Times(r)))

OuterJoin(l, r) == JoinOn(l, r, SortTimes(Times(l) \cup Times(r)))

Overlap(l, r) == Range(l.cols) \cap Range(r.cols) # {}

(* reduce(lambda l, r: l.join(r, how="outer"), dfs) *)
RECURSIVE ReduceJoin(_, _)
ReduceJoin(acc, rest) ==
    IF rest = << >> THEN [ok |-> TRUE, df |-> acc]
    ELSE IF Overlap(acc, Head(rest)) THEN [ok |-> FALSE, exc |-> "ValueError"]
    ELSE ReduceJoin(OuterJoin(acc, Head(rest)), Tail(rest))

(***************************************************************************)
(* Presentation (bot.py 84-88): len(fc.to_string(index=False)) and head(). *)
(* to_string right-justifies each column to the wider of its header and    *)
(* its values and joins the columns with one blank.  The time column is    *)
(* printed as date and time (19 characters), or as the date alone (10)     *)
(* when every row is at midnight.  The header of a numeric column carries  *)
(* a leading blank, that of an object column none; the values are narrower *)
(* than the headers (a name has at least 8 characters, the provider's      *)
(* values a few digits).  A frame without rows is printed as three lines:  *)
(* "Empty DataFrame", "Columns: [time, ...]", "Index: []".                 *)
(***************************************************************************)
TimeWidth(df) ==
    IF \A j \in DOMAIN df.rows : df.rows[j].time.hour = 0 THEN 10 ELSE 19

ColumnWidth(df, col) == IF col \in df.obj THEN Len(col) ELSE 1 + Len(col)

LineWidth(df) ==
    TimeWidth(df) +
    SumSeq([k \in DOMAIN df.cols |-> 1 + ColumnWidth(df, df.cols[k])])

TextLen(df) ==
    IF df.rows = << >>
    THEN 15 + 1 + 10 + 4 + SumSeq([k \in DOMAIN df.cols |-> 2 + Len(df.cols[k])])
         + 1 + 1 + 9
    ELSE (Len(df.rows) + 1) * LineWidth(df) + Len(df.rows)

HeadRows(df, n) == [df EXCEPT !.rows = SubSeq(df.rows, 1, Min2(n, Len(df.rows)))]

(***************************************************************************)
(* State of one handler invocation.  pc is the position in forecast();     *)
(* aw holds the reply being awaited; replies are the messages the chat     *)
(* received.  log, raw, aggCalls, raised, converted, joined and wrote      *)
(* record what the invocation did (fetches, build_forecast calls,          *)
(* exceptions, the paths it wrote).                                        *)
(***************************************************************************)
NoFrame == [cols |-> << >>, rows |-> << >>, obj |-> {}]

Content(fmt, df, models, text) ==
    [fmt |-> fmt, cols |-> df.cols, rows |-> df.rows, models |-> models,
     text |-> text]

Msg(kind, what, data, path) ==
    [kind |-> kind, what |-> what, data |-> data, path |-> path]

UsageMsg == Msg("text", "usage", Content("str", NoFrame, << >>, "Usage"), "")

NoValidMsg ==
    Msg("text", "novalid", Content("str", NoFrame, << >>, "No valid models"), "")

ErrorMsg(e) ==
    Msg("text", "error", Content("str", NoFrame, << >>, "Error: " \o e), "")

IdleChat ==
    [args |-> << >>, pc |-> "idle", date_str |-> "", start |-> 0, end |-> 0,
     models |-> << >>, i |-> 1, dfs |-> << >>, fc |-> NoFrame, aw |-> << >>,
     exc |-> "", replies |-> << >>, escaped |-> FALSE, log |-> << >>,
     raw |-> << >>, converted |-> FALSE, aggCalls |-> << >>,
     raised |-> << >>, joined |-> FALSE, wrote |-> {}]

NewChat(a) == [IdleChat EXCEPT !.args = a, !.pc = "entry"]

(* An exception raised inside the try block (bot.py 73-97). *)
Raise(r, e) == [r EXCEPT !.pc = "except", !.exc = e, !.raised = Append(@, e)]

(* await update.message.reply_*(...) *)
Await(r, msg, next, handler) ==
    [r EXCEPT !.pc = "await",
              !.aw = <<[msg |-> msg, next |-> next, handler |-> handler]>>]

(***************************************************************************)
(* forecast, bot.py 74-83: argument count, conversions, model filter.      *)
(***************************************************************************)
EnterMissingReturn(r) ==
    LET a == r.args IN
    IF Len(a) < 7
    THEN Await([r EXCEPT !.converted = TRUE, !.exc = "IndexError",
                         !.raised = Append(@, "IndexError")],
               UsageMsg, "except", FALSE)
    ELSE IF ~IsFloat(a[1]) \/ ~IsFloat(a[2]) \/ ~IsInt(a[5]) \/ ~IsInt(a[6])
    THEN Raise([r EXCEPT !.converted = TRUE], "ValueError")
    ELSE LET ms == ParseModels(a[7])
             r1 == [r EXCEPT !.converted = TRUE, !.date_str = a[4],
                             !.start = ParseInt(a[5]), !.end = ParseInt(a[6]),
                             !.models = ms]
         IN  IF ms = << >> THEN Await(r1, NoValidMsg, "return", FALSE)
             ELSE [r1 EXCEPT !.pc = "fetch", !.i = 1,
                             !.aggCalls = Append(@, ms)]

EnterResult(r) ==
    LET a == r.args IN
    IF Len(a) < 7 THEN Await(r, UsageMsg, "return", FALSE)
    ELSE IF ~IsFloat(a[1]) \/ ~IsFloat(a[2]) \/ ~IsInt(a[5]) \/ ~IsInt(a[6])
    THEN Raise([r EXCEPT !.converted = TRUE], "ValueError")
    ELSE LET ms == ParseModels(a[7])
             r1 == [r EXCEPT !.converted = TRUE, !.date_str = a[4],
                             !.start = ParseInt(a[5]), !.end = ParseInt(a[6]),
                             !.models = ms]
         IN  IF ms = << >> THEN Await(r1, NoValidMsg, "return", FALSE)
             ELSE [r1 EXCEPT !.pc = "fetch", !.i = 1,
                             !.aggCalls = Append(@, ms)]

(***************************************************************************)
(* build_forecast, bot.py 40-45: one iteration of the loop over models.    *)
(***************************************************************************)
FetchSkipFailed(r, resp) ==
    LET m == r.models[r.i]
        res == FetchModel(resp)
        r1 == [r EXCEPT !.log = Append(@, [model |-> AVAILABLE_MODELS[m],
                                           ok |-> res.ok]),
                        !.i = @ + 1,
                        !.pc = IF r.i + 1 > Len(r.models) THEN "join" ELSE "fetch"]
    IN  IF ~res.ok THEN r1
        ELSE [r1 EXCEPT
                !.raw = Append(@, res.df),
                !.dfs = Append(@, RenameFrame(
                           FilterFrame(res.df, r.date_str, r.start, r.end), m))]

FetchResult(r, resp) ==
    LET m == r.models[r.i]
        res == FetchModel(resp)
        r1 == [r EXCEPT !.log = Append(@, [model |-> AVAILABLE_MODELS[m],
                                           ok |-> res.ok])]
    IN  IF ~res.ok THEN Raise(r1, res.exc)
        ELSE [r1 EXCEPT
                !.raw = Append(@, res.df),
                !.dfs = Append(@, RenameFrame(
                           FilterFrame(res.df, r.date_str, r.start, r.end), m)),
                !.i = @ + 1,
                !.pc = IF r.i + 1 > Len(r.models) THEN "join" ELSE "fetch"]

(* build_forecast, bot.py 46: the fold of the filtered frames. *)
JoinResult(r) ==
    LET r1 == [r EXCEPT !.joined = TRUE] IN
    IF r.dfs = << >> THEN Raise(r1, "TypeError")
    ELSE LET res == ReduceJoin(Head(r.dfs), Tail(r.dfs))
         IN  IF ~res.ok THEN Raise(r1, res.exc)
             ELSE [r1 EXCEPT !.fc = res.df, !.pc = "render"]

(***************************************************************************)
(* forecast, bot.py 84-95: the size test and the first reply.              *)
(***************************************************************************)
CsvContent(r) == Content("csv", r.fc, << >>, "")

TooLong(r) == TextLen(r.fc) > 3800

TableMsg(df) == Msg("text", "table", Content("txt", df, << >>, ""), "")

RenderResult(r) ==
    IF TooLong(r)
    THEN Await(r, Msg("document", "csv", CsvContent(r), "forecast.csv"),
               "preview", FALSE)
    ELSE Await(r, TableMsg(r.fc), "plot", FALSE)

PreviewAll(r) == Await(r, TableMsg(r.fc), "plot", FALSE)

(* bot.py 88-89: fc.head(20) as a code block. *)
PreviewResult(r) == Await(r, TableMsg(HeadRows(r.fc, 20)), "plot", FALSE)

(***************************************************************************)
(* plot_forecast and the photo reply (bot.py 48-62, 96-97).                *)
(***************************************************************************)
PngContent(r) == Content("png", r.fc, r.models, "")

PlotColumnsPresent(r) ==
    \A k \in DOMAIN r.models : \A c \in {"temp", "precip", "wind"} :
        (c \o "_" \o r.models[k]) \in Range(r.fc.cols)

PlotResult(r) ==
    Await(r, Msg("photo", "chart", PngContent(r), "forecast.png"), "return", FALSE)

(* bot.py 98-99: log, then reply "Error: <e>". *)
ExceptReraise(r) ==
    [r EXCEPT !.pc = "done", !.escaped = TRUE]

ExceptResult(r) == Await(r, ErrorMsg(r.exc), "return", TRUE)

(***************************************************************************)
(* Completion of an awaited reply.  A text is delivered as passed.  A file *)
(* is passed as an open handle on its path: the transport reads it either  *)
(* when the call is made or later, before the send completes, so what is   *)
(* delivered is the content at the call or the content now.                *)
(***************************************************************************)
Deliverable(r) ==
    LET m == r.aw[1].msg IN
    {m} \cup (IF m.path # "" /\ fs[m.path] # << >>
              THEN {[m EXCEPT !.data = fs[m.path][1]]} ELSE {})

SendOkResult(r, m) ==
    [r EXCEPT !.replies = Append(@, m), !.aw = << >>,
              !.pc = IF r.aw[1].next = "return" THEN "done" ELSE r.aw[1].next]

SendFailResult(r) ==
    IF r.aw[1].handler
    THEN [r EXCEPT !.pc = "done", !.escaped = TRUE, !.aw = << >>,
                   !.raised = Append(@, "TelegramError")]
    ELSE Raise([r EXCEPT !.aw = << >>], "TelegramError")

(***************************************************************************)
(* Actions.  main() builds the Application with its defaults and adds the  *)
(* handler with its defaults (bot.py 103-106): updates are dispatched one  *)
(* at a time, and the next update's handler starts only when the current   *)
(* one has returned or raised.  running is the chat whose update is being  *)
(* handled (0: none).  provider is the set of answers the weather API may  *)
(* give during the run.  proc is what became of the process: it stopped    *)
(* while the file was loaded ("SyntaxError"), main() raised for want of    *)
(* BOT_TOKEN ("RuntimeError"), or it is serving updates ("polling").       *)
(***************************************************************************)
Positions ==
    {"entry", "fetch", "join", "render", "preview", "plot", "except", "await"}

(* Handler c is at position at and may run. *)
At(c, at) ==
    /\ proc = "polling"
    /\ chat[c].pc = at
    /\ running = IF at = "entry" THEN 0 ELSE c

Step(c, r2) ==
    /\ chat' = [chat EXCEPT ![c] = r2]
    /\ UNCHANGED <<provider, proc>>
    /\ running' = IF r2.pc = "done" THEN 0 ELSE c

Wrote(r, path) == [r EXCEPT !.wrote = @ \cup {path}]

Enter(c) ==
    /\ At(c, "entry")
    /\ Step(c, EnterResult(chat[c]))
    /\ UNCHANGED fs

Fetch(c) ==
    /\ At(c, "fetch")
    /\ \E resp \in provider : Step(c, FetchResult(chat[c], resp))
    /\ UNCHANGED fs

Join(c) ==
    /\ At(c, "join")
    /\ Step(c, JoinResult(chat[c]))
    /\ UNCHANGED fs

(* An OSError around the file of a reply (bot.py 86-87, 62 and 97):        *)
(* fc.to_csv / plt.savefig cannot open the path (the file is untouched),   *)
(* or fails after opening it for writing (the file is left truncated or    *)
(* partly written), or succeeds and open(path, "rb") then fails (the file  *)
(* is complete).  Nothing is sent for the file.                            *)
PartialFile(fmt) == Content(fmt, NoFrame, << >>, "partial")

FileOutcomes == {"untouched", "partial", "written"}

WriteFails(c, at) ==
    /\ At(c, at)
    /\ at = "render" => TooLong(chat[c])
    /\ at = "plot" => PlotColumnsPresent(chat[c])
    /\ LET path == IF at = "render" THEN "forecast.csv" ELSE "forecast.png"
           full == IF at = "render" THEN CsvContent(chat[c])
                   ELSE PngContent(chat[c])
       IN  \E out \in FileOutcomes :
              /\ Step(c, Raise(IF out = "untouched" THEN chat[c]
                               ELSE Wrote(chat[c], path), "OSError"))
              /\ fs' = CASE out = "untouched" -> fs
                         [] out = "partial" ->
                              [fs EXCEPT ![path] = <<PartialFile(full.fmt)>>]
                         [] out = "written" -> [fs EXCEPT ![path] = <<full>>]

Render(c) ==
    /\ At(c, "render")
    /\ IF TooLong(chat[c])
       THEN /\ Step(c, Wrote(RenderResult(chat[c]), "forecast.csv"))
            /\ fs' = [fs EXCEPT !["forecast.csv"] = <<CsvContent(chat[c])>>]
       ELSE /\ Step(c, RenderResult(chat[c]))
            /\ UNCHANGED fs

Preview(c) ==
    /\ At(c, "preview")
    /\ Step(c, PreviewResult(chat[c]))
    /\ UNCHANGED fs

Plot(c) ==
    /\ At(c, "plot")
    /\ IF PlotColumnsPresent(chat[c])
       THEN /\ Step(c, Wrote(PlotResult(chat[c]), "forecast.png"))
            /\ fs' = [fs EXCEPT !["forecast.png"] = <<PngContent(chat[c])>>]
       ELSE /\ Step(c, Raise(chat[c], "KeyError"))
            /\ UNCHANGED fs

Except(c) ==
    /\ At(c, "except")
    /\ Step(c, ExceptResult(chat[c]))
    /\ UNCHANGED fs

SendOk(c) ==
    /\ At(c, "await")
    /\ \E m \in Deliverable(chat[c]) : Step(c, SendOkResult(chat[c], m))
    /\ UNCHANGED fs

SendFail(c) ==
    /\ At(c, "await")
    /\ Step(c, SendFailResult(chat[c]))
    /\ UNCHANGED fs

Next ==
    \E c \in Chats :
        \/ Enter(c)
        \/ Fetch(c)
        \/ Join(c)
        \/ Render(c)
        \/ WriteFails(c, "render")
        \/ Preview(c)
        \/ Plot(c)
        \/ WriteFails(c, "plot")
        \/ Except(c)
        \/ SendOk(c)
        \/ SendFail(c)

(***************************************************************************)
(* Commands.  context.args of a /forecast message: six tokens and the      *)
(* model list, possibly followed by further tokens.                        *)
(***************************************************************************)
Cmd(lat, lon, date, start, end, ms) ==
    <<lat, lon, <<"A", "s", "i", "a", "/", "K", "o", "l", "k", "a", "t", "a">>,
      date, start, end, ms>>

Lat == <<"2", "2", ".", "2", "6">>

Lon == <<"6", "9", ".", "4", "0">>

Date == <<"2", "0", "2", "5", "-", "0", "8", "-", "1", "9">>

FiveModels ==
    <<"G", "F", "S", ",", "I", "C", "O", "N", ",", "E", "C", "M", "W", "F",
      ",", "J", "M", "A", ",", "G", "E", "M">>

(* GFS  GFS,ICON  FAKE  FAKE,GFS  GFS,GFS  ","  ICON,,gfs,GFS  " ICON ,GFSICON" *)
ShortLists ==
    {<<"G", "F", "S">>,
     <<"G", "F", "S", ",", "I", "C", "O", "N">>,
     <<"F", "A", "K", "E">>,
     <<"F", "A", "K", "E", ",", "G", "F", "S">>,
     <<"G", "F", "S", ",", "G", "F", "S">>,
     <<",">>,
     <<"I", "C", "O", "N", ",", ",", "g", "f", "s", ",", "G", "F", "S">>,
     <<" ", "I", "C", "O", "N", " ", ",", "G", "F", "S", "I", "C", "O", "N">>}

(* 12 18   18 12   0 23   x 18 *)
Windows ==
    {<< <<"1", "2">>, <<"1", "8">> >>, << <<"1", "8">>, <<"1", "2">> >>,
     << <<"0">>, <<"2", "3">> >>, << <<"x">>, <<"1", "8">> >>}

(* -2 31   +5 007   1_0 100   0 0   -1 0   12 18 with 12 in Devanagari     *)
(* digits, and the refused  12 1.5                                         *)
MoreWindows ==
    {<< <<"U+0967", "U+0968">>, <<"1", "8">> >>,
     << <<"-", "2">>, <<"3", "1">> >>, << <<"+", "5">>, <<"0", "0", "7">> >>,
     << <<"1", "_", "0">>, <<"1", "0", "0">> >>, << <<"0">>, <<"0">> >>,
     << <<"-", "1">>, <<"0">> >>, << <<"1", "2">>, <<"1", ".", "5">> >>}

(* Latitude / longitude pairs: -33.86 151.20   22.5 120.5   1e1 .5   nan 5. *)
(* 22.26 in Arabic-Indic digits with 69.40 in full-width digits, and the    *)
(* refused  22.26 1e   . 69.40   22.26 --1                                  *)
MoreCoordinates ==
    {<< <<"U+0662", "U+0662", ".", "U+0662", "U+0666">>,
        <<"U+FF16", "U+FF19", ".", "U+FF14", "U+FF10">> >>,
     << <<"-", "3", "3", ".", "8", "6">>, <<"1", "5", "1", ".", "2", "0">> >>,
     << <<"2", "2", ".", "5">>, <<"1", "2", "0", ".", "5">> >>,
     << <<"1", "e", "1">>, <<".", "5">> >>,
     << <<"n", "a", "n">>, <<"5", ".">> >>,
     << Lat, <<"1", "e">> >>,
     << <<".">>, Lon >>,
     << Lat, <<"-", "-", "1">> >>}

Commands ==
    {Cmd(lat, Lon, date, w[1], w[2], ms) :
        lat \in {Lat, <<"a", "b", "c">>},
        date \in {Date, <<"2", "0", "2", "5", "-", "8", "-", "1", "9">>},
        w \in Windows, ms \in ShortLists}
    \cup {Cmd(Lat, Lon, Date, w[1], w[2], <<"G", "F", "S">>) : w \in MoreWindows}
    \cup {Cmd(p[1], p[2], Date, <<"1", "2">>, <<"1", "8">>, <<"G", "F", "S">>) :
            p \in MoreCoordinates}
    \cup {Cmd(Lat, Lon, Date, <<"0">>, e, FiveModels) :
            e \in {<<"1", "9">>, <<"2", "3">>}}
    \cup {Cmd(Lat, Lon, Date, <<"1", "2">>, <<"1", "8">>, <<"G", "F", "S", ",">>)
            \o << <<"I", "C", "O", "N">> >>}
    \cup {SubSeq(Cmd(Lat, Lon, Date, <<"1", "2">>, <<"1", "8">>, <<"G", "F", "S">>),
                 1, n) : n \in {0, 6}}

(* The commands of two chats whose updates arrive in one run. *)
PairCommands ==
    {Cmd(Lat, Lon, Date, <<"0">>, e, FiveModels) :
        e \in {<<"1", "9">>, <<"2", "3">>}}
    \cup {Cmd(Lat, Lon, Date, <<"1", "2">>, <<"1", "8">>, <<"G", "F", "S">>)}

PairResponses == {[kind |-> "Timeout"], [kind |-> "ok", hourly |-> Series(1)]}

NoFiles == ("forecast.csv" :> << >>) @@ ("forecast.png" :> << >>)

(* The process never got to serve: no update is ever handed to a handler. *)
NotServing ==
    /\ proc \in {"SyntaxError", "RuntimeError"}
    /\ chat = [c \in Chats |-> IdleChat]
    /\ fs = NoFiles
    /\ running = 0

(* The process did not start, or one update is waiting to be handled. *)
Init ==
    /\ provider = Responses
    /\ \/ NotServing
       \/ /\ proc = "polling"
          /\ \E a \in Commands : chat = (1 :> NewChat(a)) @@ (2 :> IdleChat)
          /\ fs = NoFiles
          /\ running = 0

Spec == Init /\ [][Next]_vars

(* Updates of two chats are waiting; they are handled one after the other, *)
(* in either order.                                                        *)
InitPair ==
    /\ provider = PairResponses
    /\ \/ NotServing
       \/ /\ proc = "polling"
          /\ \E a \in PairCommands, b \in PairCommands :
                chat = (1 :> NewChat(a)) @@ (2 :> NewChat(b))
          /\ fs = NoFiles
          /\ running = 0

SpecPair == InitPair /\ [][Next]_vars

(***************************************************************************)
(* Properties.                                                             *)
(***************************************************************************)
Done(c) == chat[c].pc = "done"

Started(c) == chat[c].pc \notin {"idle", "entry"}

ArtifactKinds == {"table", "csv", "chart"}

(* The messages the chat received, and the one being sent, if any. *)
Attempted(c) ==
    {chat[c].replies[k] : k \in DOMAIN chat[c].replies} \cup
    {chat[c].aw[k].msg : k \in DOMAIN chat[c].aw}

NoArtifact(c) == \A m \in Attempted(c) : m.what \notin ArtifactKinds

FetchFailed(c) == \E k \in DOMAIN chat[c].log : ~chat[c].log[k].ok

AggOk(c) == chat[c].fc.cols # << >>

ChartMsg(c) == Msg("photo", "chart", PngContent(chat[c]), "forecast.png")

CsvMsg(c) == Msg("document", "csv", CsvContent(chat[c]), "forecast.csv")

(* C1: once a fetch of the request has failed, no table text, CSV file,    *)
(* preview or chart is sent or being sent for it, and no table is built.   *)
C1_FetchFailureFailsRequest ==
    \A c \in Chats :
        FetchFailed(c) => NoArtifact(c) /\ ~AggOk(c) /\ ~chat[c].joined

C1_Witness ==
    \E c \in Chats :
        /\ Done(c) /\ Len(chat[c].log) = 2
        /\ chat[c].log[1].ok /\ ~chat[c].log[2].ok
        /\ Len(chat[c].replies) = 1 /\ chat[c].replies[1].what = "error"

(***************************************************************************)
(* C2.  Rank bounds the steps a handler has left; every step lowers it.    *)
(***************************************************************************)
RankOf(r) ==
    CASE r.pc \in {"idle", "done"} -> 0
      [] r.pc = "await" ->
            IF r.aw[1].handler THEN 1
            ELSE IF r.aw[1].next = "return" THEN 3
            ELSE IF r.aw[1].next = "plot" THEN 5
            ELSE 7
      [] r.pc = "except" -> 2
      [] r.pc = "plot" -> 4
      [] r.pc = "preview" -> 6
      [] r.pc = "render" -> 8
      [] r.pc = "join" -> 9
      [] r.pc = "fetch" -> 10 + Len(r.models) - r.i
      [] r.pc = "entry" -> 11 + (IF Len(r.args) >= 7 THEN Len(r.args[7]) ELSE 0)

Rank == RankOf(chat[1]) + RankOf(chat[2])

AllDone == \A c \in Chats : chat[c].pc \in {"idle", "done"}

(* Some handler can take its next step. *)
NotStuck == AllDone \/ \E c \in Chats, at \in Positions : At(c, at)

LastReplyIsError(c, e) ==
    /\ chat[c].replies # << >>
    /\ chat[c].replies[Len(chat[c].replies)] = ErrorMsg(e)

(* C2 as stated: a finished handler has replied, nothing escaped it, and   *)
(* any failure was reported as "Error: <message>".                         *)
C2_AlwaysRepliesNeverEscapes ==
    \A c \in Chats :
        Done(c) =>
            /\ Len(chat[c].replies) >= 1
            /\ ~chat[c].escaped
            /\ chat[c].raised # << >> => LastReplyIsError(c, chat[c].raised[1])

C2_FinishedState ==
    \A c \in Chats :
        Done(c) =>
            /\ chat[c].escaped =>
                  /\ Len(chat[c].raised) = 2
                  /\ chat[c].raised[2] = "TelegramError"
            /\ ~chat[c].escaped =>
                  /\ Len(chat[c].replies) >= 1
                  /\ Len(chat[c].raised) <= 1
                  /\ chat[c].raised # << >> =>
                        LastReplyIsError(c, chat[c].raised[1])

(* C2 amended: every handler terminates (each step lowers Rank and a step  *)
(* is ready until all are done);   a finished handler has replied and     *)
(* reported a failure as "Error: <message>" without letting it escape,     *)
(* unless sending that error reply failed, which alone escapes.            *)
C2_TerminatesAndReplies ==
    /\ [][Rank' < Rank]_vars
    /\ [](NotStuck /\ C2_FinishedState)

C2_Witness ==
    \E c \in Chats :
        /\ Done(c) /\ ~chat[c].escaped
        /\ chat[c].raised = <<"TelegramError">>
        /\ Len(chat[c].replies) = 2
        /\ LastReplyIsError(c, "TelegramError")

(***************************************************************************)
(* C3.  The registered names of the model list, in their order.            *)
(***************************************************************************)
RegisteredAt(arg) ==
    LET toks == SplitComma(arg)
    IN  {k \in DOMAIN toks : IsRegistered(toks[k])}

IsRegisteredSelection(call, arg) ==
    LET toks == SplitComma(arg)
        reg == {k \in DOMAIN toks : IsRegistered(toks[k])}
        nth(j) == CHOOSE k \in reg : Cardinality({q \in reg : q < k}) = j - 1
    IN  /\ Len(call) = Cardinality(reg)
        /\ \A j \in DOMAIN call : call[j] = Str(Strip(toks[nth(j)]))

AggregatorGetsRegistered(c) ==
    /\ Len(chat[c].aggCalls) <= 1
    /\ \A k \in DOMAIN chat[c].aggCalls :
          IsRegisteredSelection(chat[c].aggCalls[k], chat[c].args[7])
    /\ LET toks == SplitComma(chat[c].args[7])
           names == {Str(Strip(toks[j])) : j \in DOMAIN toks} \cap
                    DOMAIN AVAILABLE_MODELS
       IN  \A k \in DOMAIN chat[c].log :
              \E n \in names : chat[c].log[k].model = AVAILABLE_MODELS[n]

NothingInvoked(c) == chat[c].aggCalls = << >> /\ chat[c].log = << >>

(* C3 as stated: with no registered token the only reply is "no valid      *)
(* models".                                                                *)
C3_NoValidIsOnlyReply ==
    \A c \in Chats :
        Len(chat[c].args) >= 7 =>
            /\ AggregatorGetsRegistered(c)
            /\ RegisteredAt(chat[c].args[7]) = {} =>
                  /\ NothingInvoked(c)
                  /\ Done(c) => chat[c].replies = <<NoValidMsg>>

(* C3 amended: unknown tokens are dropped and build_forecast gets the      *)
(* registered names in order; with no registered token nothing is fetched  *)
(* or aggregated, and the only reply is "no valid models" when the numeric *)
(* arguments convert and that send succeeds (else an error reply or none). *)
C3_UnknownModelsDropped ==
    \A c \in Chats :
        Len(chat[c].args) >= 7 =>
            /\ AggregatorGetsRegistered(c)
            /\ RegisteredAt(chat[c].args[7]) = {} =>
                  /\ NothingInvoked(c)
                  /\ \A m \in Attempted(c) : m.what \in {"novalid", "error"}
                  /\ Done(c) /\ chat[c].raised = << >> =>
                        chat[c].replies = <<NoValidMsg>>
                  /\ Done(c) /\ chat[c].raised # << >> =>
                        \A k \in DOMAIN chat[c].replies :
                            chat[c].replies[k].what = "error"

C3_Witness ==
    \E c \in Chats :
        /\ Done(c) /\ chat[c].raised = << >>
        /\ chat[c].aggCalls = << <<"GFS">> >>
        /\ chat[c].args[7] = <<"F", "A", "K", "E", ",", "G", "F", "S">>
        /\ Len(chat[c].log) = 1

(***************************************************************************)
(* C4.                                                                     *)
(***************************************************************************)
NoProcessing(c) ==
    ~chat[c].converted /\ NothingInvoked(c) /\ NoArtifact(c)

(* C4 as stated: any token count other than 7 is refused, and fewer than 7 *)
(* yields exactly the usage reply.                                         *)
C4_ExactlySevenTokens ==
    \A c \in Chats :
        Started(c) =>
            /\ Len(chat[c].args) # 7 => NoProcessing(c)
            /\ Len(chat[c].args) < 7 /\ Done(c) =>
                  chat[c].replies = <<UsageMsg>>

(* C4 amended: at least 7 tokens are required and further tokens are       *)
(* ignored; with fewer than 7 nothing is converted, fetched, aggregated or *)
(* rendered, the usage message is the first reply attempted, and it is the *)
(* only reply when its send succeeds.                                      *)
C4_FewerThanSevenTokens ==
    \A c \in Chats :
        Started(c) =>
            /\ Len(chat[c].args) >= 7 => chat[c].converted
            /\ Len(chat[c].args) < 7 =>
                  /\ NoProcessing(c)
                  /\ \A m \in Attempted(c) : m.what \in {"usage", "error"}
                  /\ chat[c].raised \in {<< >>, <<"TelegramError">>,
                                         <<"TelegramError", "TelegramError">>}
                  /\ Done(c) /\ chat[c].raised = << >> =>
                        chat[c].replies = <<UsageMsg>>

C4_Witness ==
    \E c \in Chats :
        /\ Done(c) /\ Len(chat[c].args) = 6
        /\ chat[c].replies = <<UsageMsg>>

(***************************************************************************)
(* C5.  Under the dispatch main() sets up, no two handlers are ever        *)
(* between entry and return at once (NeverInterleaved holds of SpecPair),  *)
(* so the case the claim is about, handlers interleaving at their awaits,  *)
(* is not a behaviour of the program.  In the runs it has, every chat      *)
(* receives the files of its own table and the file being sent is as its   *)
(* handler wrote it (OwnFiles, FileUntouchedWhileSent hold), while both    *)
(* requests write the same paths (NoSharedFile does not hold).             *)
(***************************************************************************)
InFlight(c) == chat[c].pc \notin {"idle", "entry", "done"}

NeverInterleaved == \A c \in Chats, d \in Chats : InFlight(c) /\ InFlight(d) => c = d

OwnFiles(c) ==
    \A k \in DOMAIN chat[c].replies :
        chat[c].replies[k].kind \in {"document", "photo"} =>
            /\ chat[c].replies[k].data.cols = chat[c].fc.cols
            /\ chat[c].replies[k].data.rows = chat[c].fc.rows

FileUntouchedWhileSent(c) ==
    \A k \in DOMAIN chat[c].aw :
        chat[c].aw[k].msg.path # "" =>
            fs[chat[c].aw[k].msg.path] = <<chat[c].aw[k].msg.data>>

NoSharedFile(c) == \A d \in Chats \ {c} : chat[c].wrote \cap chat[d].wrote = {}

SequentialOwnFiles == \A c \in Chats : OwnFiles(c) /\ FileUntouchedWhileSent(c)

(***************************************************************************)
(* C6.                                                                     *)
(***************************************************************************)
FirstRows(df, n) == [j \in 1 .. Min2(n, Len(df.rows)) |-> df.rows[j]]

ShapeSmall(c) ==
    /\ TextLen(chat[c].fc) <= 3800
    /\ chat[c].replies = <<TableMsg(chat[c].fc), ChartMsg(c)>>

ShapeBig(c) ==
    /\ TextLen(chat[c].fc) > 3800
    /\ Len(chat[c].replies) = 3
    /\ chat[c].replies[1] = CsvMsg(c)
    /\ chat[c].replies[2].kind = "text" /\ chat[c].replies[2].what = "table"
    /\ chat[c].replies[2].data.cols = chat[c].fc.cols
    /\ chat[c].replies[2].data.rows = FirstRows(chat[c].fc, 20)
    /\ chat[c].replies[3] = ChartMsg(c)

FullTextAndFile(c) ==
    /\ TableMsg(chat[c].fc) \in Range(chat[c].replies)
    /\ \E k \in DOMAIN chat[c].replies : chat[c].replies[k].what = "csv"

(* C6 as stated: aggregation and sends succeeding give one of the two      *)
(* shapes, and the full text and the file are never both sent.             *)
C6_TwoShapesNeverBoth ==
    \A c \in Chats :
        Done(c) /\ AggOk(c) /\ "TelegramError" \notin Range(chat[c].raised) =>
            /\ ShapeSmall(c) \/ ShapeBig(c)
            /\ ~FullTextAndFile(c)

(* C6 amended: when aggregation, file writing and sends all succeed the    *)
(* replies are the full table text then the chart (text of at most 3800    *)
(* characters), or the CSV file, the first 20 rows as text, then the chart *)
(* (longer text); the full text and the file are both sent exactly when    *)
(* the text is longer and the table has at most 20 rows.                   *)
C6_ReplyShapes ==
    \A c \in Chats :
        Done(c) /\ AggOk(c) /\ chat[c].raised = << >> =>
            /\ ShapeSmall(c) \/ ShapeBig(c)
            /\ FullTextAndFile(c) <=>
                  (TextLen(chat[c].fc) > 3800 /\ Len(chat[c].fc.rows) <= 20)

C6_Witness ==
    \E c \in Chats :
        /\ Done(c) /\ chat[c].raised = << >>
        /\ Len(chat[c].replies) = 3
        /\ Len(chat[c].fc.rows) = 24
        /\ Len(chat[c].replies[2].data.rows) = 20

(***************************************************************************)
(* C7, C8.                                                                 *)
(***************************************************************************)
Requested(c, t) ==
    /\ Strftime(t) = chat[c].args[4]
    /\ chat[c].start <= t.hour /\ t.hour <= chat[c].end

(* C7: every row of the aggregated table is on the requested date with an  *)
(* hour in [start_hr, end_hr]; the table is empty when start_hr > end_hr.  *)
C7_RowsInWindow ==
    \A c \in Chats :
        AggOk(c) =>
            /\ \A j \in DOMAIN chat[c].fc.rows : Requested(c, chat[c].fc.rows[j].time)
            /\ chat[c].start > chat[c].end => chat[c].fc.rows = << >>

C7_Witness ==
    \E c \in Chats :
        /\ AggOk(c) /\ Len(chat[c].fc.rows) = 7
        /\ chat[c].start = 12 /\ chat[c].end = 18
        /\ \E j \in DOMAIN chat[c].raw[1].rows :
              chat[c].raw[1].rows[j].time.hour = 19
        /\ \E j \in DOMAIN chat[c].raw[1].rows :
              /\ chat[c].raw[1].rows[j].time.hour = 12
              /\ chat[c].raw[1].rows[j].time.date = Day2

FilteredRows(c, k) ==
    SelectSeq(chat[c].raw[k].rows, LAMBDA r : Requested(c, r.time))

(* Model k's cells in the table: its fetched values at its own timestamps, *)
(* null at the others.                                                     *)
CellsFromFetch(c, k, rows) ==
    LET src == FilteredRows(c, k)
        m == chat[c].models[k]
    IN  \A j \in DOMAIN rows : \A col \in {"temp", "precip", "wind"} :
            LET hit == {q \in DOMAIN src : src[q].time = rows[j].time}
            IN  IF hit = {}
                THEN rows[j].cells[col \o "_" \o m] = NaN
                ELSE \A q \in hit :
                        rows[j].cells[col \o "_" \o m] = src[q].cells[col]

(* C8: the table build_forecast returns has one row per distinct timestamp *)
(* of the models' filtered series, in ascending order; a model's cells are *)
(* null where its filtered series has no sample and its fetched values     *)
(* elsewhere.  (The handler never changes the table afterwards.)           *)
C8_OuterJoinComplete ==
    \A c \in Chats :
        AggOk(c) /\ chat[c].pc = "render" =>
            LET rows == chat[c].fc.rows
                T == UNION {Times([rows |-> FilteredRows(c, k)]) :
                               k \in DOMAIN chat[c].models}
            IN  /\ Len(rows) = Cardinality(T)
                /\ {rows[j].time : j \in DOMAIN rows} = T
                /\ \A j \in 1 .. Len(rows) - 1 :
                      TimeKey(rows[j].time) < TimeKey(rows[j + 1].time)
                /\ Len(chat[c].fc.cols) = 3 * Len(chat[c].models)
                /\ \A k \in DOMAIN chat[c].models : CellsFromFetch(c, k, rows)

C8_Witness ==
    \E c \in Chats :
        /\ AggOk(c) /\ chat[c].pc = "render"
        /\ chat[c].models = <<"GFS", "ICON">>
        /\ \E j \in DOMAIN chat[c].fc.rows :
              /\ chat[c].fc.rows[j].cells["temp_ICON"] = NaN
              /\ chat[c].fc.rows[j].cells["temp_GFS"] # NaN
        /\ \E j \in DOMAIN chat[c].fc.rows :
              chat[c].fc.rows[j].cells["temp_ICON"] # NaN

(***************************************************************************)
(* C9, C10.                                                                *)
(***************************************************************************)
(* C9: within one build_forecast run the fetches follow the caller's model *)
(* order, no model is fetched more than once, nothing is fetched after a   *)
(* failed fetch, and the join starts only after every fetch succeeded.     *)
C9_FetchOncePerModel ==
    \A c \in Chats :
        LET log == chat[c].log
        IN  /\ Len(log) <= Len(chat[c].models)
            /\ \A k \in DOMAIN log :
                  log[k].model = AVAILABLE_MODELS[chat[c].models[k]]
            /\ \A j \in DOMAIN log, k \in DOMAIN log :
                  j # k => log[j].model # log[k].model
            /\ \A k \in 1 .. Len(log) - 1 : log[k].ok
            /\ chat[c].joined =>
                  /\ Len(log) = Len(chat[c].models)
                  /\ \A k \in DOMAIN log : log[k].ok

(* C10: every model list passed to build_forecast is a non-empty sequence  *)
(* of pairwise distinct registry names.                                    *)
C10_ModelsDistinct ==
    \A c \in Chats : \A k \in DOMAIN chat[c].aggCalls :
        LET call == chat[c].aggCalls[k]
        IN  /\ call # << >>
            /\ \A j \in DOMAIN call : call[j] \in DOMAIN AVAILABLE_MODELS
            /\ \A i \in DOMAIN call, j \in DOMAIN call :
                  i # j => call[i] # call[j]

=============================================================================
